---------------------------- MODULE Spec2Model ----------------------------
(***************************************************************************)
(* A model of the attitude-estimator numerical core of pi3hat-master/fw:   *)
(* the Unscented Kalman Filter engine (ukf_filter.h), the quaternion math  *)
(* (quaternion.h) and the angle helpers (math_util.h).                     *)
(*                                                                         *)
(* Numbers.  A float is modelled as a pair <<n, d>>:                       *)
(*   d > 0   the finite value n/d, in lowest terms;                        *)
(*   <<1,0>> +infinity, <<-1,0>> -infinity, <<0,0>> NaN.                   *)
(* Arithmetic on finite values is exact rational arithmetic, except Sqrt,  *)
(* which is exact when the root is rational and rounded down otherwise.    *)
(* The non-finite values follow the IEEE-754 rules.  Rounding of finite    *)
(* results, overflow to infinity and the sign of zero are not modelled.    *)
(***************************************************************************)
EXTENDS Integers, Sequences, FiniteSets, TLC

VARIABLES state_, covariance_, process_noise_, error_, call, ncalls, hist, result

vars == <<state_, covariance_, process_noise_, error_, call, ncalls, hist, result>>

(***************************************************************************)
(* Bounds of the model.                                                    *)
(***************************************************************************)
\* The number of calls made on one filter instance.
MaxCalls == 2

\* The filter is followed while the numerators and denominators of its state
\* and covariance stay within MaxNum.
MaxNum == 12

\* Angles given to WrapNegPiToPi range over k/AngleDen * pi, |k| <= MaxAngle.
MaxAngle == 60
AngleDen == 4

\* The quaternions rotated are built of integers in -MaxQ..MaxQ.
MaxQ == 4

(***************************************************************************)
(* Floating-point values.                                                  *)
(***************************************************************************)
Abs(a) == IF a < 0 THEN -a ELSE a

Sign(a) == IF a < 0 THEN -1 ELSE IF a > 0 THEN 1 ELSE 0

RECURSIVE Gcd(_, _)
Gcd(a, b) == IF b = 0 THEN a ELSE Gcd(b, a % b)

\* The value n/d in canonical form; d = 0 gives an infinity or NaN.
Norm(n, d) ==
  IF d = 0 THEN <<Sign(n), 0>>
  ELSE LET g == Gcd(Abs(n), Abs(d))
           s == Sign(d)
       IN <<(s * n) \div g, (s * d) \div g>>

NaN == <<0, 0>>
PInf == <<1, 0>>
NInf == <<-1, 0>>
Zero == <<0, 1>>
One == <<1, 1>>
Half == <<1, 2>>
Int2Num(k) == <<k, 1>>

\* std::isfinite
IsFinite(x) == x[2] # 0

IsNaN(x) == x = NaN

Neg(x) == <<-x[1], x[2]>>

\* std::abs
FAbs(x) == <<Abs(x[1]), x[2]>>

Add(x, y) ==
  IF x[2] = 0 /\ y[2] = 0
  THEN (IF x = y THEN x ELSE NaN)
  ELSE LET g == Gcd(x[2], y[2])
       IN IF g = 0 THEN Norm(x[1] * y[2] + y[1] * x[2], 0)
          ELSE Norm(x[1] * (y[2] \div g) + y[1] * (x[2] \div g), (x[2] \div g) * y[2])

Sub(x, y) == Add(x, Neg(y))

Mul(x, y) ==
  IF IsNaN(x) \/ IsNaN(y) THEN NaN
  ELSE IF x[2] = 0 \/ y[2] = 0 THEN Norm(Sign(x[1]) * Sign(y[1]), 0)
  ELSE LET g == Gcd(Abs(x[1]), y[2])
           h == Gcd(Abs(y[1]), x[2])
       IN Norm((x[1] \div g) * (y[1] \div h), (x[2] \div h) * (y[2] \div g))

\* 1/x; 1/0 is +infinity.
Recip(x) ==
  IF IsNaN(x) THEN NaN
  ELSE IF x[2] = 0 THEN Zero
  ELSE IF x[1] = 0 THEN PInf
  ELSE Norm(x[2], x[1])

Div(x, y) == Mul(x, Recip(y))

\* x < y and x <= y; every comparison with NaN is false.
Lt(x, y) ==
  /\ ~IsNaN(x)
  /\ ~IsNaN(y)
  /\ IF x[2] = 0 /\ y[2] = 0 THEN x[1] < y[1]
     ELSE x[1] * y[2] < y[1] * x[2]

Le(x, y) == ~IsNaN(x) /\ ~IsNaN(y) /\ (x = y \/ Lt(x, y))

\* The integer square root, rounded down.
RECURSIVE ISqrt(_)
ISqrt(n) ==
  IF n < 2 THEN n
  ELSE LET r == 2 * ISqrt(n \div 4)
       IN IF (r + 1) * (r + 1) <= n THEN r + 1 ELSE r

IsSquare(n) == n >= 0 /\ ISqrt(n) * ISqrt(n) = n

\* std::sqrt: NaN for NaN and negative arguments.
Sqrt(x) ==
  IF IsNaN(x) \/ x[1] < 0 THEN NaN
  ELSE IF x[2] = 0 THEN PInf
  ELSE Norm(ISqrt(x[1] * x[2]), x[2])

\* The square root of x is taken without rounding.
ExactSqrt(x) == IsFinite(x) /\ x[1] >= 0 /\ IsSquare(x[1]) /\ IsSquare(x[2])

(***************************************************************************)
(* Eigen fixed-size vectors and matrices: a vector is a tuple of numbers,  *)
(* a matrix a tuple of rows.                                               *)
(***************************************************************************)
\* A tuple given by a function on 1..n, as a tuple.
Tuple(f) == f \o <<>>

Rows(A) == Len(A)
Cols(A) == Len(A[1])

VAdd(u, v) == Tuple([i \in 1..Len(u) |-> Add(u[i], v[i])])
VSub(u, v) == Tuple([i \in 1..Len(u) |-> Sub(u[i], v[i])])
VScale(a, u) == Tuple([i \in 1..Len(u) |-> Mul(a, u[i])])

MAdd(A, B) == Tuple([i \in 1..Rows(A) |-> Tuple([j \in 1..Cols(A) |-> Add(A[i][j], B[i][j])])])
MSub(A, B) == Tuple([i \in 1..Rows(A) |-> Tuple([j \in 1..Cols(A) |-> Sub(A[i][j], B[i][j])])])
MScale(a, A) == Tuple([i \in 1..Rows(A) |-> Tuple([j \in 1..Cols(A) |-> Mul(a, A[i][j])])])
Transpose(A) == Tuple([j \in 1..Cols(A) |-> Tuple([i \in 1..Rows(A) |-> A[i][j]])])
MZero(r, c) == Tuple([i \in 1..r |-> Tuple([j \in 1..c |-> Zero])])
Col(A, j) == Tuple([i \in 1..Rows(A) |-> A[i][j]])

\* The sum of a non-empty tuple of numbers, left to right.
RECURSIVE SumTo(_, _)
SumTo(s, k) == IF k = 1 THEN s[1] ELSE Add(SumTo(s, k - 1), s[k])

Sum(s) == SumTo(s, Len(s))

Dot(u, v) == Sum(Tuple([k \in 1..Len(u) |-> Mul(u[k], v[k])]))

MMul(A, B) == Tuple([i \in 1..Rows(A) |-> Tuple([j \in 1..Cols(B) |-> Dot(A[i], Col(B, j))])])
MVec(A, v) == Tuple([i \in 1..Rows(A) |-> Dot(A[i], v)])

\* u * v.transpose()
Outer(u, v) == Tuple([i \in 1..Len(u) |-> Tuple([j \in 1..Len(v) |-> Mul(u[i], v[j])])])

\* x is written with a numerator and a denominator within MaxNum.
Small(x) == Abs(x[1]) <= MaxNum /\ x[2] <= MaxNum
VSmall(v) == \A i \in 1..Len(v) : Small(v[i])
MSmall(A) == \A i \in 1..Rows(A) : VSmall(A[i])

AllFinite(v) == \A i \in 1..Len(v) : IsFinite(v[i])
MAllFinite(A) == \A i \in 1..Rows(A) : AllFinite(A[i])
IsSymmetric(A) == \A i \in 1..Rows(A) : \A j \in 1..Cols(A) : A[i][j] = A[j][i]

\* The element of a one-element set.  In Only({F(x) : x \in {e}}) the
\* expression e is evaluated once and x stands for its value in F(x).
Only(S) == CHOOSE x \in S : TRUE

\* Eigen's inverse() of a fixed-size 1x1 or 2x2 matrix.
Inverse(A) ==
  IF Rows(A) = 1 THEN << <<Recip(A[1][1])>> >>
  ELSE Only({ << <<Mul(A[2][2], invdet), Mul(Neg(A[1][2]), invdet)>>,
                 <<Mul(Neg(A[2][1]), invdet), Mul(A[1][1], invdet)>> >>
              : invdet \in {Recip(Sub(Mul(A[1][1], A[2][2]), Mul(A[1][2], A[2][1])))} })

\* x = mat(k,k) - A10.squaredNorm()
LLTPivot(mat, k) ==
  IF k > 1
  THEN Sub(mat[k][k], Sum(Tuple([j \in 1..(k - 1) |-> Mul(mat[k][j], mat[k][j])])))
  ELSE mat[k][k]

\* mat(k,k) = sx; A21 -= A20 * A10.adjoint(); A21 /= sx
LLTColumn(mat, k, sx) ==
  Tuple([i \in 1..Rows(mat) |-> Tuple([j \in 1..Cols(mat) |->
    IF i = k /\ j = k THEN sx
    ELSE IF j = k /\ i > k
         THEN Div(IF k > 1
                  THEN Sub(mat[i][k],
                           Sum(Tuple([c \in 1..(k - 1) |-> Mul(mat[i][c], mat[k][c])])))
                  ELSE mat[i][k],
                  sx)
         ELSE mat[i][j]])])

\* Eigen's unblocked in-place Cholesky factorisation from column k on: it
\* reads the lower triangle only and stops at the first pivot that is not
\* positive, leaving the rest of the matrix as it is.
RECURSIVE LLTFrom(_, _)
LLTFrom(mat, k) ==
  IF k > Rows(mat) THEN mat
  ELSE Only({ IF Le(x, Zero) THEN mat
              ELSE Only({ LLTFrom(next, k + 1) : next \in {LLTColumn(mat, k, Sqrt(x))} })
              : x \in {LLTPivot(mat, k)} })

\* A.llt().matrixL() assigned to a dense matrix.
MatrixL(A) ==
  Only({ Tuple([i \in 1..Rows(A) |->
                  Tuple([j \in 1..Cols(A) |-> IF j <= i THEN m[i][j] ELSE Zero])])
         : m \in {LLTFrom(A, 1)} })

\* The factorisation of A from column k on succeeds, with every square root
\* taken exactly.
RECURSIVE ExactLLTFrom(_, _)
ExactLLTFrom(mat, k) ==
  IF k > Rows(mat) THEN TRUE
  ELSE \E x \in {LLTPivot(mat, k)} :
         /\ Lt(Zero, x)
         /\ ExactSqrt(x)
         /\ \E next \in {LLTColumn(mat, k, Sqrt(x))} : ExactLLTFrom(next, k + 1)

(***************************************************************************)
(* UkfFilter<_Scalar, _NumStates>                                          *)
(***************************************************************************)
NumStates == 2

kNone == "kNone"
kNanState == "kNanState"
kNanMeasurement == "kNanMeasurement"

\* delta = (n * covariance_).llt().matrixL()
Delta(covariance) ==
  Only({ MatrixL(S) : S \in {MScale(Int2Num(NumStates), covariance)} })

\* A mutant of StoreSigmaPoints: the covariance is not scaled by n.
StoreSigmaPointsUnscaled(state, covariance) ==
  Only({ Tuple([i \in 1..(2 * NumStates) |->
                  IF i <= NumStates THEN VAdd(state, Col(delta, i))
                  ELSE VSub(state, Col(delta, i - NumStates))])
         : delta \in {MatrixL(covariance)} })

\* The sigma points of (state, covariance): array[i] = state + delta.col(i),
\* array[i + _NumStates] = state - delta.col(i).
StoreSigmaPoints(state, covariance) ==
  Only({ Tuple([i \in 1..(2 * NumStates) |->
                  IF i <= NumStates THEN VAdd(state, Col(delta, i))
                  ELSE VSub(state, Col(delta, i - NumStates))])
         : delta \in {Delta(covariance)} })

\* result = array[0]; result += array[i] for the rest.
RECURSIVE ArraySumTo(_, _)
ArraySumTo(array, k) ==
  IF k = 1 THEN array[1]
  ELSE Only({ VAdd(r, array[k]) : r \in {ArraySumTo(array, k - 1)} })

ArraySum(array) == ArraySumTo(array, Len(array))

\* M = Zero; M += ms[i] for each i.
RECURSIVE MSumTo(_, _)
MSumTo(ms, k) ==
  IF k = 0 THEN MZero(Rows(ms[1]), Cols(ms[1]))
  ELSE Only({ MAdd(r, ms[k]) : r \in {MSumTo(ms, k - 1)} })

\* A mutant of ConditionCovariance: the matrix is returned as it is.
ConditionCovarianceNot(P) == P

\* result = 0.5 * (result + result.transpose())
ConditionCovariance(P) ==
  Only({ MScale(Half, S) : S \in {Only({ MAdd(P, Pt) : Pt \in {Transpose(P)} })} })

\* process_function(sigma_points[i], dt_s): the caller's process model, one of
\*   linear     x -> F x
\*   integrate  x -> x + dt (F x)
\*   abs        x -> (|x[i]|)_i, not linear
\*   emit       x -> v, whatever x and dt are
ProcessFunction(f, x, dt) ==
  CASE f.kind = "linear" -> MVec(f.F, x)
    [] f.kind = "integrate" -> Only({ VAdd(x, d) : d \in {Only({ VScale(dt, Fx) : Fx \in {MVec(f.F, x)} })} })
    [] f.kind = "abs" -> Tuple([i \in 1..Len(x) |-> FAbs(x[i])])
    [] f.kind = "emit" -> f.v

\* measurement_function(sigma_points[i]): the caller's measurement model,
\* linear (x -> H x) or emit (x -> v).
MeasurementFunction(h, x) ==
  CASE h.kind = "linear" -> MVec(h.H, x)
    [] h.kind = "emit" -> h.v

\* Equation 14.59: the sigma points through the process model.
Xhat(state, covariance, dt, f) ==
  Only({ Tuple([i \in 1..(2 * NumStates) |-> ProcessFunction(f, sigma_points[i], dt)])
         : sigma_points \in {StoreSigmaPoints(state, covariance)} })

\* Equation 14.60
Xhatminus(xhat) ==
  Only({ VScale(Recip(Int2Num(2 * NumStates)), sum) : sum \in {ArraySum(xhat)} })

\* The sum over i of (a[i] - abar) * (b[i] - bbar).transpose(), times 1/N.
Scatter(a, abar, b, bbar) ==
  Only({ MScale(Recip(Int2Num(Len(a))), sum) : sum \in
    { Only({ MSumTo(cc, Len(a)) : cc \in
        { Tuple([i \in 1..Len(a) |->
             Only({ Outer(da, db) : da \in {VSub(a[i], abar)}, db \in {VSub(b[i], bbar)} })]) } }) } })

\* A mutant of Pminus: the process noise is added once, whatever dt_s is.
PminusNoisePerCall(xhat, xhatminus, dt, process_noise) ==
  Only({ MAdd(P, process_noise) : P \in {Scatter(xhat, xhatminus, xhat, xhatminus)} })

\* Equation 14.61, plus dt_s * process_noise_.
Pminus(xhat, xhatminus, dt, process_noise) ==
  Only({ MAdd(P, Q) : P \in {Scatter(xhat, xhatminus, xhat, xhatminus)},
                      Q \in {MScale(dt, process_noise)} })

\* A mutant of UpdateStateError: the flag is recomputed on every call.
UpdateStateErrorRecomputed(error, xhatminus) ==
  IF \E i \in 1..NumStates : ~IsFinite(xhatminus[i]) THEN kNanState ELSE kNone

\* A mutant of UpdateStateError: only the first component is tested.
UpdateStateErrorFirstOnly(error, xhatminus) ==
  IF error = kNone /\ ~IsFinite(xhatminus[1]) THEN kNanState ELSE error

\* The error flag after UpdateState's check of xhatminus.
UpdateStateError(error, xhatminus) ==
  IF error = kNone /\ (\E i \in 1..NumStates : ~IsFinite(xhatminus[i]))
  THEN kNanState
  ELSE error

\* A mutant of UpdateStateCommit: a non-finite mean is flagged and not committed.
UpdateStateCommitRejects(state, covariance, error, m) ==
  IF AllFinite(m.xhatminus)
  THEN [state |-> m.xhatminus, covariance |-> ConditionCovariance(m.Pminus),
        error |-> UpdateStateError(error, m.xhatminus)]
  ELSE [state |-> state, covariance |-> covariance,
        error |-> UpdateStateError(error, m.xhatminus)]

\* The end of UpdateState: the check of xhatminus, state_ = xhatminus and
\* covariance_ = ConditionCovariance(Pminus).
UpdateStateCommit(state, covariance, error, m) ==
  [state |-> m.xhatminus, covariance |-> ConditionCovariance(m.Pminus),
   error |-> UpdateStateError(error, m.xhatminus)]

\* Equations 14.59 to 14.61: xhatminus and Pminus of a prediction.
Minus(state, covariance, process_noise, dt, f) ==
  Only({ Only({ [xhatminus |-> xhatminus,
                 Pminus |-> Pminus(xhat, xhatminus, dt, process_noise)]
                : xhatminus \in {Xhatminus(xhat)} })
         : xhat \in {Xhat(state, covariance, dt, f)} })

\* What UpdateState(dt_s, process_function) leaves in the filter.
UpdateStateResult(state, covariance, process_noise, error, dt, f) ==
  Only({ UpdateStateCommit(state, covariance, error, m)
         : m \in {Minus(state, covariance, process_noise, dt, f)} })

\* Equations 14.62 and 14.63: the sigma points through the measurement model.
Yhatin(sigma_points, h) ==
  Tuple([i \in 1..(2 * NumStates) |-> MeasurementFunction(h, sigma_points[i])])

\* Equation 14.64
Yhat(yhatin) ==
  Only({ VScale(Recip(Int2Num(2 * NumStates)), sum) : sum \in {ArraySum(yhatin)} })

\* Equation 14.65
Py(yhatin, yhat, measurement_noise) ==
  Only({ MAdd(P, measurement_noise) : P \in {Scatter(yhatin, yhat, yhatin, yhat)} })

\* Equation 14.66
Pxy(sigma_points, state, yhatin, yhat) == Scatter(sigma_points, state, yhatin, yhat)

\* Equation 14.67: K = Pxy * Py.inverse()
Gain(pxy, py) == Only({ MMul(pxy, inv) : inv \in {Inverse(py)} })

\* xplus = state_ + K * (measurement - yhat)
Xplus(state, K, measurement, yhat) ==
  Only({ VAdd(state, Kd) : Kd \in
    { Only({ MVec(K, d) : d \in {VSub(measurement, yhat)} }) } })

\* Pplus = covariance_ - ((K * Py) * K.transpose())
Pplus(covariance, K, py) ==
  Only({ MSub(covariance, KPK) : KPK \in
    { Only({ MMul(KP, Kt) : KP \in {MMul(K, py)}, Kt \in {Transpose(K)} }) } })

\* A mutant of UpdateMeasurementError: the flag is written whatever it held.
UpdateMeasurementErrorOverwrites(error, xplus) ==
  IF \E i \in 1..NumStates : ~IsFinite(xplus[i]) THEN kNanMeasurement ELSE error

\* The error flag after UpdateMeasurement's check of xplus.
UpdateMeasurementError(error, xplus) ==
  IF error = kNone /\ (\E i \in 1..NumStates : ~IsFinite(xplus[i]))
  THEN kNanMeasurement
  ELSE error

\* The end of UpdateMeasurement: the check of xplus, state_ = xplus and
\* covariance_ = ConditionCovariance(Pplus).
UpdateMeasurementCommit(state, covariance, error, p) ==
  [state |-> p.xplus, covariance |-> ConditionCovariance(p.Pplus),
   error |-> UpdateMeasurementError(error, p.xplus)]

\* Equations 14.64 to 14.67, from the sigma points and their predicted
\* measurements.
PlusFrom(state, covariance, sigma_points, yhatin, measurement, measurement_noise) ==
  Only({ Only({ Only({ [xplus |-> Xplus(state, K, measurement, yhat),
                        Pplus |-> Pplus(covariance, K, py)]
                       : K \in { Only({ Gain(pxy, py)
                                 : pxy \in {Pxy(sigma_points, state, yhatin, yhat)} }) } })
                : py \in {Py(yhatin, yhat, measurement_noise)} })
         : yhat \in {Yhat(yhatin)} })

\* Equations 14.62 to 14.67: xplus and Pplus of a measurement.
Plus(state, covariance, h, measurement, measurement_noise) ==
  Only({ Only({ PlusFrom(state, covariance, sigma_points, yhatin, measurement,
                         measurement_noise)
                : yhatin \in {Yhatin(sigma_points, h)} })
         : sigma_points \in {StoreSigmaPoints(state, covariance)} })

\* What UpdateMeasurement(measurement_function, measurement,
\* measurement_noise) leaves in the filter.
UpdateMeasurementResult(state, covariance, error, h, measurement, measurement_noise) ==
  Only({ UpdateMeasurementCommit(state, covariance, error, p)
         : p \in {Plus(state, covariance, h, measurement, measurement_noise)} })

(***************************************************************************)
(* The calls the model makes on a filter.                                  *)
(***************************************************************************)
Vec(a, b) == <<Int2Num(a), Int2Num(b)>>
Mat(a, b, c, d) == << <<Int2Num(a), Int2Num(b)>>, <<Int2Num(c), Int2Num(d)>> >>
Identity == Mat(1, 0, 0, 1)
NoMatrix == MZero(NumStates, NumStates)
NoVector == Vec(0, 0)

InitialStates == {Vec(1, -1), <<NaN, Zero>>}

\* 2 * covariance has the Cholesky factors I and [[2,0],[1,1]]; the zero
\* matrix is not positive definite.
InitialCovariances == {MScale(Half, Identity), MScale(Half, Mat(4, 2, 2, 2)), NoMatrix}

\* The last one is not symmetric.
ProcessNoises == {NoMatrix, Identity, Mat(0, 1, 0, 0)}

TimeSteps == {One, PInf}

ProcessFunctions ==
  { [kind |-> "linear", F |-> Mat(1, 1, 0, 1), v |-> NoVector],
    [kind |-> "integrate", F |-> Mat(0, 1, 0, 0), v |-> NoVector],
    [kind |-> "abs", F |-> NoMatrix, v |-> NoVector],
    [kind |-> "emit", F |-> NoMatrix, v |-> Vec(2, 1)],
    [kind |-> "emit", F |-> NoMatrix, v |-> <<Zero, NaN>>] }

\* A measurement call: the model, the measurement and its noise, of one
\* dimension (1 or 2).
MeasurementCalls ==
  { [h |-> [kind |-> "linear", H |-> << <<One, Zero>> >>, v |-> <<Zero>>],
     z |-> <<Int2Num(2)>>, R |-> << <<One>> >>],
    [h |-> [kind |-> "linear", H |-> << <<One, Zero>> >>, v |-> <<Zero>>],
     z |-> <<Int2Num(2)>>, R |-> << <<PInf>> >>],
    [h |-> [kind |-> "linear", H |-> Mat(1, 0, 1, 1), v |-> NoVector],
     z |-> Vec(0, 3), R |-> Mat(1, 1, 0, 1)],
    [h |-> [kind |-> "emit", H |-> << <<Zero, Zero>> >>, v |-> <<PInf>>],
     z |-> <<Zero>>, R |-> << <<One>> >>],
    [h |-> [kind |-> "emit", H |-> << <<Zero, Zero>> >>, v |-> <<One>>],
     z |-> <<PInf>>, R |-> << <<One>> >>] }

WrittenStates == {Vec(0, 2), <<PInf, Zero>>}

\* The second one is not symmetric.
WrittenCovariances == {MScale(Half, Identity), Mat(1, 1, 0, 1)}

NoResult == <<>>

\* UkfFilter(initial_state, initial_covariance, process_noise)
Init ==
  /\ state_ \in InitialStates
  /\ covariance_ \in InitialCovariances
  /\ process_noise_ \in ProcessNoises
  /\ error_ = kNone
  /\ call = [op |-> "UkfFilter"]
  /\ ncalls = 0
  /\ hist = [initial_finite |-> AllFinite(state_), written |-> FALSE]
  /\ result = NoResult

\* filter.UpdateState(dt, f)
UpdateStateCall(dt, f) ==
  /\ ncalls < MaxCalls
  /\ \E r \in {UpdateStateResult(state_, covariance_, process_noise_, error_, dt, f)} :
        /\ VSmall(r.state)
        /\ MSmall(r.covariance)
        /\ state_' = r.state
        /\ covariance_' = r.covariance
        /\ error_' = r.error
  /\ call' = [op |-> "UpdateState", dt |-> dt, f |-> f]
  /\ ncalls' = ncalls + 1
  /\ UNCHANGED process_noise_

\* filter.UpdateMeasurement(c.h, c.z, c.R)
UpdateMeasurementCall(c) ==
  /\ ncalls < MaxCalls
  /\ \E r \in {UpdateMeasurementResult(state_, covariance_, error_, c.h, c.z, c.R)} :
        /\ VSmall(r.state)
        /\ MSmall(r.covariance)
        /\ state_' = r.state
        /\ covariance_' = r.covariance
        /\ error_' = r.error
  /\ call' = [op |-> "UpdateMeasurement", c |-> c]
  /\ ncalls' = ncalls + 1
  /\ UNCHANGED process_noise_

UpdateState(dt, f) == UpdateStateCall(dt, f) /\ UNCHANGED <<hist, result>>

UpdateMeasurement(c) == UpdateMeasurementCall(c) /\ UNCHANGED <<hist, result>>

\* state() = s
WriteState(s) ==
  /\ ncalls < MaxCalls
  /\ state_' = s
  /\ call' = [op |-> "state"]
  /\ ncalls' = ncalls + 1
  /\ hist' = [hist EXCEPT !.written = TRUE]
  /\ UNCHANGED <<covariance_, process_noise_, error_, result>>

\* covariance() = P
WriteCovariance(P) ==
  /\ ncalls < MaxCalls
  /\ covariance_' = P
  /\ call' = [op |-> "covariance"]
  /\ ncalls' = ncalls + 1
  /\ hist' = [hist EXCEPT !.written = TRUE]
  /\ UNCHANGED <<state_, process_noise_, error_, result>>

Next ==
  \/ \E dt \in TimeSteps, f \in ProcessFunctions : UpdateState(dt, f)
  \/ \E c \in MeasurementCalls : UpdateMeasurement(c)
  \/ \E s \in WrittenStates : WriteState(s)
  \/ \E P \in WrittenCovariances : WriteCovariance(P)

Spec == Init /\ [][Next]_vars

(***************************************************************************)
(* The error flag and the commit (claims C1, C2, C3, C4, C10), under Spec. *)
(***************************************************************************)
FilterCalls == {"UpdateState", "UpdateMeasurement"}

\* C1: the error flag is sticky: once error() is not kNone, no UpdateState,
\* UpdateMeasurement or write through state() or covariance() returns it to
\* kNone.
C1_ErrorSticky == [][error_ # kNone => error_' # kNone]_vars

\* An UpdateState or UpdateMeasurement has ended with every number of the
\* filter finite, and the flag set by an earlier call is still there.
C1_Witness ==
  /\ error_ # kNone
  /\ call.op \in FilterCalls
  /\ AllFinite(state_)
  /\ MAllFinite(covariance_)

\* The step is an UpdateState that leaves the predicted mean in state_ and
\* the symmetrized predicted covariance in covariance_.
PredictCommits ==
  \E m \in {Minus(state_, covariance_, process_noise_, call'.dt, call'.f)} :
    /\ state_' = m.xhatminus
    /\ covariance_' = ConditionCovariance(m.Pminus)

\* The step is an UpdateMeasurement that leaves the updated state in state_
\* and the symmetrized updated covariance in covariance_.
UpdateCommits ==
  \E p \in {Plus(state_, covariance_, call'.c.h, call'.c.z, call'.c.R)} :
    /\ state_' = p.xplus
    /\ covariance_' = ConditionCovariance(p.Pplus)

\* C2: a non-finite result never stops the commit: after every UpdateState
\* the state is the predicted mean and the covariance the symmetrized
\* predicted covariance, after every UpdateMeasurement the state is the
\* updated state and the covariance the symmetrized updated covariance,
\* whatever is finite and whatever the flag was.
C2_CommitAlways ==
  [][ /\ call'.op = "UpdateState" => PredictCommits
      /\ call'.op = "UpdateMeasurement" => UpdateCommits ]_vars

\* A non-finite mean has been committed by an UpdateState that found the
\* flag already set.
C2_Witness ==
  /\ call.op = "UpdateState"
  /\ ~AllFinite(state_)
  /\ error_ = kNanMeasurement

\* C3: the flag changes in two ways only: UpdateState sets kNanState exactly
\* when the flag is kNone and the predicted mean has a non-finite component,
\* UpdateMeasurement sets kNanMeasurement exactly when the flag is kNone and
\* the updated state has a non-finite component; every other call leaves the
\* flag as it is, so the first kind recorded is never overwritten.
C3_ErrorChanges ==
  [][ /\ call'.op = "UpdateState" =>
           \E m \in {Minus(state_, covariance_, process_noise_, call'.dt, call'.f)} :
              error_' = IF error_ = kNone /\ ~AllFinite(m.xhatminus)
                        THEN kNanState ELSE error_
      /\ call'.op = "UpdateMeasurement" =>
           \E p \in {Plus(state_, covariance_, call'.c.h, call'.c.z, call'.c.R)} :
              error_' = IF error_ = kNone /\ ~AllFinite(p.xplus)
                        THEN kNanMeasurement ELSE error_
      /\ call'.op \notin FilterCalls => error_' = error_ ]_vars

\* An UpdateMeasurement has committed a non-finite state and the flag still
\* says kNanState, the kind recorded first.
C3_Witness ==
  /\ call.op = "UpdateMeasurement"
  /\ ~AllFinite(state_)
  /\ error_ = kNanState

C10_NoneMeansFiniteState ==
  (hist.initial_finite /\ ~hist.written /\ error_ = kNone) => AllFinite(state_)

\* Such a filter after a call, its flag kNone, its state finite and its
\* covariance not: the flag does not cover the covariance.
C10_Witness ==
  /\ hist.initial_finite
  /\ ~hist.written
  /\ error_ = kNone
  /\ call.op \in FilterCalls
  /\ AllFinite(state_)
  /\ ~MAllFinite(covariance_)

(***************************************************************************)
(* Sigma-point generation (claim C5), under SpecSigma: filters over a      *)
(* positive-definite covariance, whose sigma points are taken once.        *)
(***************************************************************************)
\* The entries of the Cholesky factors range over -MaxFactor..MaxFactor.
MaxFactor == 3

\* The lower-triangular matrices of positive diagonal.
CholeskyFactors ==
  { << <<Int2Num(a), Zero>>, <<Int2Num(b), Int2Num(c)>> >> :
      a \in 1..MaxFactor, b \in (-MaxFactor)..MaxFactor, c \in 1..MaxFactor }

\* The positive-definite covariance of which L is the factor delta.
CovarianceOf(L) == MScale(Recip(Int2Num(NumStates)), MMul(L, Transpose(L)))

PositiveDefinite == { CovarianceOf(L) : L \in CholeskyFactors }

SigmaStates == {Vec(0, 0), Vec(1, -1), <<Half, Int2Num(3)>>}

InitSigma ==
  /\ state_ \in SigmaStates
  /\ covariance_ \in PositiveDefinite
  /\ process_noise_ = NoMatrix
  /\ error_ = kNone
  /\ call = [op |-> "UkfFilter"]
  /\ ncalls = 0
  /\ hist = [initial_finite |-> TRUE, written |-> FALSE]
  /\ result = NoResult

\* StoreSigmaPoints(sigma_points)
StoreSigmaPointsCall ==
  /\ result = NoResult
  /\ result' = <<StoreSigmaPoints(state_, covariance_)>>
  /\ call' = [op |-> "StoreSigmaPoints"]
  /\ UNCHANGED <<state_, covariance_, process_noise_, error_, ncalls, hist>>

NextSigma == StoreSigmaPointsCall

SpecSigma == InitSigma /\ [][NextSigma]_vars

\* The arithmetic mean of the points.
Mean(points) == VScale(Recip(Int2Num(Len(points))), ArraySum(points))

\* The sample covariance of the points about their mean, with divisor the
\* number of points.
SampleCovariance(points) ==
  \* Scatter divides by Len(points).
  Only({ Scatter(points, mean, points, mean) : mean \in {Mean(points)} })

\* C5: the sigma points of a state and a positive-definite covariance are 2N
\* points in N symmetric pairs (point[i] + point[i+N] = 2 * state), their
\* mean is the state and their sample covariance, with divisor 2N, is the
\* covariance.
C5_SigmaPoints ==
  result # NoResult =>
    \E points \in {result[1]} :
      /\ Len(points) = 2 * NumStates
      /\ \A i \in 1..NumStates :
            VAdd(points[i], points[i + NumStates]) = VScale(Int2Num(2), state_)
      /\ Mean(points) = state_
      /\ SampleCovariance(points) = covariance_

\* The sigma points of a state that is not zero and a covariance that is not
\* diagonal have been taken.
C5_Witness ==
  /\ result # NoResult
  /\ state_ # NoVector
  /\ covariance_[2][1] # Zero
  /\ result[1][1] # result[1][2]

(***************************************************************************)
(* The linear case (claim C6), under SpecLinear: the filter runs beside    *)
(* the closed-form Kalman filter, kept in result, on linear models and     *)
(* symmetric noise, through the calls whose square roots are rational.     *)
(***************************************************************************)
LinearStates == {Vec(1, -1), Vec(0, 2)}

LinearCovariances ==
  { CovarianceOf(L) : L \in {Identity, Mat(2, 0, 1, 1), Mat(2, 0, 0, 2), Mat(1, 0, 1, 1)} }

\* Symmetric process noise.
LinearNoises ==
  { NoMatrix,
    << <<<<3, 4>>, Zero>>, <<Zero, <<3, 4>>>> >>,
    << <<<<3, 2>>, One>>, <<One, Half>> >> }

LinearSteps == {One, Int2Num(2)}

LinearF == {Identity, Mat(2, 0, 1, 1), Mat(0, 1, -1, 0)}

\* Linear measurement models with a measurement and a symmetric noise.
LinearMeasurements ==
  { [h |-> [kind |-> "linear", H |-> << <<One, Zero>> >>, v |-> <<Zero>>],
     z |-> <<Int2Num(2)>>, R |-> << <<One>> >>],
    [h |-> [kind |-> "linear", H |-> << <<One, One>> >>, v |-> <<Zero>>],
     z |-> <<Int2Num(-1)>>, R |-> << <<Int2Num(2)>> >>],
    [h |-> [kind |-> "linear", H |-> Mat(1, 0, 1, 1), v |-> NoVector],
     z |-> Vec(0, 3), R |-> Mat(2, 1, 1, 2)],
    [h |-> [kind |-> "linear", H |-> Identity, v |-> NoVector],
     z |-> Vec(2, 2), R |-> Identity] }

\* The linear Kalman filter's prediction: F x and F P F^T + dt Q.
KalmanPredict(k, F, dt, Q) ==
  [x |-> MVec(F, k.x),
   P |-> MAdd(MMul(MMul(F, k.P), Transpose(F)), MScale(dt, Q)),
   ops |-> Append(k.ops, "UpdateState")]

\* The linear Kalman filter's gain K = P H^T S^-1, where S = H P H^T + R.
KalmanGain(k, H, S) == MMul(MMul(k.P, Transpose(H)), Inverse(S))

\* The linear Kalman filter's update from S and K: x + K (z - H x) and
\* P - K S K^T.
KalmanUpdateFrom(k, H, z, S, K) ==
  [x |-> VAdd(k.x, MVec(K, VSub(z, MVec(H, k.x)))),
   P |-> MSub(k.P, MMul(MMul(K, S), Transpose(K))),
   ops |-> Append(k.ops, "UpdateMeasurement")]

\* The linear Kalman filter's update.
KalmanUpdate(k, H, z, R) ==
  Only({ Only({ KalmanUpdateFrom(k, H, z, S, K) : K \in {KalmanGain(k, H, S)} }) :
           S \in {MAdd(MMul(MMul(H, k.P), Transpose(H)), R)} })

\* The square roots that the sigma points of the filter take are rational.
ExactSigmaPoints == ExactLLTFrom(MScale(Int2Num(NumStates), covariance_), 1)

InitLinear ==
  /\ state_ \in LinearStates
  /\ covariance_ \in LinearCovariances
  /\ process_noise_ \in LinearNoises
  /\ error_ = kNone
  /\ call = [op |-> "UkfFilter"]
  /\ ncalls = 0
  /\ hist = [initial_finite |-> TRUE, written |-> FALSE]
  /\ result = <<[x |-> state_, P |-> covariance_, ops |-> <<>>]>>

LinearPredict(dt, F) ==
  /\ ExactSigmaPoints
  /\ UpdateStateCall(dt, [kind |-> "linear", F |-> F, v |-> NoVector])
  /\ result' = <<KalmanPredict(result[1], F, dt, process_noise_)>>
  /\ UNCHANGED hist

LinearUpdate(c) ==
  /\ ExactSigmaPoints
  /\ UpdateMeasurementCall(c)
  /\ result' = <<KalmanUpdate(result[1], c.h.H, c.z, c.R)>>
  /\ UNCHANGED hist

NextLinear ==
  \/ \E dt \in LinearSteps, F \in LinearF : LinearPredict(dt, F)
  \/ \E c \in LinearMeasurements : LinearUpdate(c)

SpecLinear == InitLinear /\ [][NextLinear]_vars

\* C6: on a linear process model x -> F x and a linear measurement model
\* x -> H x, UpdateState(dt) followed by UpdateMeasurement(z, R) leaves the
\* state and the covariance of the closed-form linear Kalman filter run from
\* the same state and covariance.
C6_LinearKalman == state_ = result[1].x /\ covariance_ = result[1].P

\* A prediction over a process noise that is not zero, then an update, have
\* been made, and the filter is not where it began.
C6_Witness ==
  /\ result[1].ops = <<"UpdateState", "UpdateMeasurement">>
  /\ process_noise_ # NoMatrix
  /\ covariance_[2][1] # Zero
  /\ state_ \notin LinearStates

(***************************************************************************)
(* Quaternion (claims C7 and C9), under SpecQuaternion.  A Quaternion is   *)
(* <<w_, x_, y_, z_>>, a Point3D <<x, y, z>>; state_ holds the quaternion  *)
(* the member functions are called on.                                     *)
(***************************************************************************)
Quaternion(w, x, y, z) == <<w, x, y, z>>
Point3D(x, y, z) == <<x, y, z>>

\* Quaternion()
QuaternionIdentity == Quaternion(One, Zero, Zero, Zero)

\* A mutant of OperatorStar: the c * h term of the x component is subtracted.
OperatorStarSign(lhs, rhs) ==
  Only({ Quaternion(Sub(Sub(Sub(Mul(a, e), Mul(b, f)), Mul(c, g)), Mul(d, h)),
                    Sub(Sub(Add(Mul(b, e), Mul(a, f)), Mul(c, h)), Mul(d, g)),
                    Add(Add(Sub(Mul(a, g), Mul(b, h)), Mul(c, e)), Mul(d, f)),
                    Add(Sub(Add(Mul(a, h), Mul(b, g)), Mul(c, f)), Mul(d, e))) :
           <<a, b, c, d, e, f, g, h>> \in
             {<<lhs[1], lhs[2], lhs[3], lhs[4], rhs[1], rhs[2], rhs[3], rhs[4]>>} })

\* operator*(lhs, rhs)
OperatorStar(lhs, rhs) ==
  Only({ Quaternion(Sub(Sub(Sub(Mul(a, e), Mul(b, f)), Mul(c, g)), Mul(d, h)),
                    Sub(Add(Add(Mul(b, e), Mul(a, f)), Mul(c, h)), Mul(d, g)),
                    Add(Add(Sub(Mul(a, g), Mul(b, h)), Mul(c, e)), Mul(d, f)),
                    Add(Sub(Add(Mul(a, h), Mul(b, g)), Mul(c, f)), Mul(d, e))) :
           <<a, b, c, d, e, f, g, h>> \in
             {<<lhs[1], lhs[2], lhs[3], lhs[4], rhs[1], rhs[2], rhs[3], rhs[4]>>} })

conjugated(q) == Quaternion(q[1], Neg(q[2]), Neg(q[3]), Neg(q[4]))

\* w_ * w_ + x_ * x_ + y_ * y_ + z_ * z_
SquaredNorm(q) == Sum(Tuple([i \in 1..Len(q) |-> Mul(q[i], q[i])]))

normalized(q) ==
  Only({ Quaternion(Div(q[1], norm), Div(q[2], norm), Div(q[3], norm), Div(q[4], norm)) :
           norm \in {Sqrt(SquaredNorm(q))} })

\* Rotate(vector3d) of the quaternion q
Rotate(q, vector3d) ==
  Only({ Point3D(r[2], r[3], r[4]) :
           r \in { OperatorStar(qp, conjugated(q)) :
                     qp \in {OperatorStar(q, Quaternion(Zero, vector3d[1], vector3d[2], vector3d[3]))} } })

\* The quaternion that IntegrateRotationRate(roll_rate_rps, pitch_rate_rps,
\* yaw_rate_rps, dt_s) normalizes.
IntegrateRotationRateQuaternion(roll_rate_rps, pitch_rate_rps, yaw_rate_rps, dt_s) ==
  Quaternion(One,
             Mul(Mul(Half, pitch_rate_rps), dt_s),
             Mul(Mul(Half, roll_rate_rps), dt_s),
             Mul(Mul(Half, yaw_rate_rps), dt_s))

IntegrateRotationRate(roll_rate_rps, pitch_rate_rps, yaw_rate_rps, dt_s) ==
  normalized(IntegrateRotationRateQuaternion(roll_rate_rps, pitch_rate_rps, yaw_rate_rps, dt_s))

\* The quaternion that IntegrateRotationRate(rate_rps, dt_s) normalizes.
IntegrateRotationRateVectorQuaternion(rate_rps, dt_s) ==
  Quaternion(One,
             Mul(Mul(Half, rate_rps[1]), dt_s),
             Mul(Mul(Half, rate_rps[2]), dt_s),
             Mul(Mul(Half, rate_rps[3]), dt_s))

IntegrateRotationRateVector(rate_rps, dt_s) ==
  normalized(IntegrateRotationRateVectorQuaternion(rate_rps, dt_s))

IntegerQuaternions ==
  { Quaternion(Int2Num(w), Int2Num(x), Int2Num(y), Int2Num(z)) :
      w \in (-MaxQ)..MaxQ, x \in (-MaxQ)..MaxQ, y \in (-MaxQ)..MaxQ, z \in (-MaxQ)..MaxQ }

\* The quaternions of norm 1 that normalized() makes of the integer ones.
UnitQuaternions ==
  { normalized(q) :
      q \in { p \in IntegerQuaternions : SquaredNorm(p) # Zero /\ ExactSqrt(SquaredNorm(p)) } }

\* Quaternions of another norm.
OtherQuaternions ==
  { Quaternion(One, One, Zero, Zero),
    Quaternion(Zero, Zero, Zero, Zero),
    Quaternion(Half, Zero, Zero, Zero),
    Quaternion(One, PInf, Zero, Zero),
    Quaternion(One, Zero, NaN, Zero) }

Point3Ds ==
  { Point3D(Int2Num(x), Int2Num(y), Int2Num(z)) : x \in -1..1, y \in -1..1, z \in -1..1 }
    \cup {Point3D(Half, Int2Num(2), Int2Num(-3))}

Rates == {Int2Num(-1), Zero, Int2Num(2)}

RateSteps == {Half, One}

InitQuaternion ==
  /\ state_ \in UnitQuaternions \cup OtherQuaternions
  /\ covariance_ = NoMatrix
  /\ process_noise_ = NoMatrix
  /\ error_ = kNone
  /\ call = [op |-> "Quaternion"]
  /\ ncalls = 0
  /\ hist = [initial_finite |-> AllFinite(state_), written |-> FALSE]
  /\ result = NoResult

QuaternionUnchanged == UNCHANGED <<state_, covariance_, process_noise_, error_, ncalls, hist>>

RotateCall(vector3d) ==
  /\ result = NoResult
  /\ call' = [op |-> "Rotate", vector3d |-> vector3d]
  /\ result' = <<Rotate(state_, vector3d)>>
  /\ QuaternionUnchanged

IntegrateRotationRateCall(roll_rate_rps, pitch_rate_rps, yaw_rate_rps, dt_s) ==
  /\ result = NoResult
  /\ call' = [op |-> "IntegrateRotationRate",
              rate_rps |-> <<roll_rate_rps, pitch_rate_rps, yaw_rate_rps>>, dt_s |-> dt_s]
  /\ result' = <<[quaternion |-> IntegrateRotationRateQuaternion(
                                   roll_rate_rps, pitch_rate_rps, yaw_rate_rps, dt_s),
                  normalized |-> IntegrateRotationRate(
                                   roll_rate_rps, pitch_rate_rps, yaw_rate_rps, dt_s)]>>
  /\ QuaternionUnchanged

IntegrateRotationRateVectorCall(rate_rps, dt_s) ==
  /\ result = NoResult
  /\ call' = [op |-> "IntegrateRotationRateVector", rate_rps |-> rate_rps, dt_s |-> dt_s]
  /\ result' = <<[quaternion |-> IntegrateRotationRateVectorQuaternion(rate_rps, dt_s),
                  normalized |-> IntegrateRotationRateVector(rate_rps, dt_s)]>>
  /\ QuaternionUnchanged

NextQuaternion ==
  \/ \E vector3d \in Point3Ds : RotateCall(vector3d)
  \/ \E roll \in Rates, pitch \in Rates, yaw \in Rates, dt_s \in RateSteps :
       IntegrateRotationRateCall(roll, pitch, yaw, dt_s)
  \/ \E roll \in Rates, pitch \in Rates, yaw \in Rates, dt_s \in RateSteps :
       IntegrateRotationRateVectorCall(Point3D(roll, pitch, yaw), dt_s)

SpecQuaternion == InitQuaternion /\ [][NextQuaternion]_vars

\* C7: both IntegrateRotationRate overloads, the vector one called with
\* (roll_rate, pitch_rate, yaw_rate), normalize the quaternion
\* (1, 0.5*dt*pitch_rate, 0.5*dt*roll_rate, 0.5*dt*yaw_rate).
C7_OverloadsAgree ==
  call.op \in {"IntegrateRotationRate", "IntegrateRotationRateVector"} =>
    result[1].quaternion =
      Quaternion(One,
                 Mul(Mul(Half, call.dt_s), call.rate_rps[2]),
                 Mul(Mul(Half, call.dt_s), call.rate_rps[1]),
                 Mul(Mul(Half, call.dt_s), call.rate_rps[3]))

IsUnit(q) == SquaredNorm(q) = One

\* C9: Rotate of a unit quaternion keeps the squared magnitude of the
\* vector, and Rotate of the identity quaternion returns the vector.
C9_RotatePreservesNorm ==
  call.op = "Rotate" =>
    /\ IsUnit(state_) => SquaredNorm(result[1]) = SquaredNorm(call.vector3d)
    /\ state_ = QuaternionIdentity => result[1] = call.vector3d

\* A unit quaternion of no zero component has turned a vector into another.
C9_Witness ==
  /\ call.op = "Rotate"
  /\ IsUnit(state_)
  /\ \A i \in 1..4 : state_[i] # Zero
  /\ result[1] # call.vector3d
  /\ call.vector3d[1] = Half

(***************************************************************************)
(* WrapNegPiToPi (claim C8), under SpecWrap.  Angles are counted in units  *)
(* of static_cast<float>(M_PI), so that Pi is One.                         *)
(***************************************************************************)
Pi == One
TwoPi == Mul(Int2Num(2), Pi)

\* The integer nearest to the finite x between zero and x.
Trunc(x) == Int2Num(Sign(x[1]) * (Abs(x[1]) \div x[2]))

\* std::fmod(x, y): x - n * y, where n is x / y rounded toward zero.
Fmod(x, y) ==
  IF IsNaN(x) \/ IsNaN(y) \/ ~IsFinite(x) \/ y = Zero THEN NaN
  ELSE IF ~IsFinite(y) THEN x
  ELSE Sub(x, Mul(Trunc(Div(x, y)), y))

\* A mutant of WrapNegPiToPi: the branch of the positive values is taken for
\* the negative ones too.
WrapNegPiToPiOneBranch(value) ==
  IF Le(Neg(Pi), value) /\ Le(value, Pi) THEN value
  ELSE Sub(Fmod(Add(value, Pi), TwoPi), Pi)

WrapNegPiToPi(value) ==
  IF Le(Neg(Pi), value) /\ Le(value, Pi) THEN value
  ELSE IF Lt(Zero, value) THEN Sub(Fmod(Add(value, Pi), TwoPi), Pi)
  ELSE Add(Fmod(Sub(value, Pi), TwoPi), Pi)

Angles ==
  { Mul(Norm(k, AngleDen), Pi) : k \in (-MaxAngle)..MaxAngle } \cup {NaN, PInf, NInf}

InitWrap ==
  /\ state_ = NoVector
  /\ covariance_ = NoMatrix
  /\ process_noise_ = NoMatrix
  /\ error_ = kNone
  /\ call = [op |-> "math_util"]
  /\ ncalls = 0
  /\ hist = [initial_finite |-> TRUE, written |-> FALSE]
  /\ result = NoResult

WrapNegPiToPiCall(value) ==
  /\ result = NoResult
  /\ call' = [op |-> "WrapNegPiToPi", value |-> value]
  /\ result' = <<WrapNegPiToPi(value)>>
  /\ UNCHANGED <<state_, covariance_, process_noise_, error_, ncalls, hist>>

NextWrap == \E value \in Angles : WrapNegPiToPiCall(value)

SpecWrap == InitWrap /\ [][NextWrap]_vars

\* x and y differ by an integer multiple of 2 * pi.
SameAngle(x, y) ==
  \E turns \in {Div(Sub(x, y), TwoPi)} : IsFinite(turns) /\ turns[2] = 1

\* C8 as stated: for every input, WrapNegPiToPi(value) is greater than -pi,
\* at most pi, and differs from the input by an integer multiple of 2 * pi.
C8_HalfOpen ==
  call.op = "WrapNegPiToPi" =>
    /\ Lt(Neg(Pi), result[1])
    /\ Le(result[1], Pi)
    /\ SameAngle(result[1], call.value)

\* C8: for every finite input, WrapNegPiToPi(value) is at least -pi, at
\* most pi, and differs from the input by an integer multiple of 2 * pi; for
\* an infinite or NaN input it is NaN.
C8_Closed ==
  call.op = "WrapNegPiToPi" =>
    /\ IsFinite(call.value) =>
         /\ Le(Neg(Pi), result[1])
         /\ Le(result[1], Pi)
         /\ SameAngle(result[1], call.value)
    /\ ~IsFinite(call.value) => IsNaN(result[1])

\* An odd multiple of pi above pi has been wrapped to -pi.
C8_Witness ==
  /\ call.op = "WrapNegPiToPi"
  /\ Lt(Pi, call.value)
  /\ result[1] = Neg(Pi)

=============================================================================
